---------------------------- MODULE Spec2Model ----------------------------
(***************************************************************************)
(* Ride-sharing dispatch simulation (CSC148 A1): container.py, location.py *)
(* rider.py, driver.py, monitor.py, dispatcher.py and event.py.            *)
(*                                                                         *)
(* Every operator below is the Python method of the same name, computed    *)
(* statement by statement.  A Python exception is an outcome of a call: an *)
(* operation returns [st, exc, val] where st is the program state at the   *)
(* point the call returned or raised (assignments made before a raise are  *)
(* kept), exc is "none" or the name of the exception that left the call,   *)
(* and val is the returned value as a sequence (<<>> for None and for []). *)
(*                                                                         *)
(* dispatcher.py line 3 reads "from container import Queue(),              *)
(* PriorityQueue()", which is not Python; the methods of the module are    *)
(* modelled as they run once that line imports the two classes.            *)
(***************************************************************************)
EXTENDS Integers, Sequences, FiniteSets, TLC

(***************************************************************************)
(* Bounds of the model.                                                    *)
(***************************************************************************)
MaxCoord == 1
MaxTime == 1
MaxCalls == 2
MaxSeeds == 3
MaxPatience == 1
MaxSpeed == 2
MaxWait == 2

(***************************************************************************)
(* Identifiers and inputs.                                                 *)
(***************************************************************************)
Riders == {"r1", "r2"}
Drivers == {"d1", "d2"}

\* Python None where a Location is expected; a Location is <<row, column>>.
None == <<>>
NoId == "None"

Coord == 0..MaxCoord
Locations == Coord \X Coord

\* rider.py constants
WAITING == "waiting"
CANCELLED == "cancelled"
SATISFIED == "satisfied"

\* monitor.py constants
RIDER == "rider"
DRIVER == "driver"
REQUEST == "request"
CANCEL == "cancel"
PICKUP == "pickup"
DROPOFF == "dropoff"


(***************************************************************************)
(* Program state.                                                          *)
(*   rider      Rider objects: origin, destination, patience, _status      *)
(*   driver     Driver objects: location, speed, is_idle, destination,     *)
(*              _passenger                                                 *)
(*   waitlist   Dispatcher._waitlist._items (Queue)                        *)
(*   fleet      Dispatcher._fleet._items (PriorityQueue)                   *)
(*   activities Monitor._activities: category -> identifier -> list        *)
(*   ret        the last call: operation, arguments, exception, value      *)
(*   events     the engine's event queue, PriorityQueue._items of Events   *)
(*   applied    the events the engine has applied, in order                *)
(*   phase      the engine: "load", "run", "aborted"                       *)
(*   serial     the number of events inserted so far (an event's identity) *)
(*   calls      the number of calls the client has made                    *)
(*   scenario   what was loaded for the run: the riders and drivers as     *)
(*              created, and the seed events in the order of loading       *)
(*   previous   what an earlier run of the scenario left, when there was   *)
(*              one                                                        *)
(***************************************************************************)
VARIABLES rider, driver, waitlist, fleet, activities, ret,
          events, applied, phase, serial, calls, scenario, previous

vars == <<rider, driver, waitlist, fleet, activities, ret,
          events, applied, phase, serial, calls, scenario, previous>>

\* The objects an operation works on, threaded through its statements.
St == [rider |-> rider, driver |-> driver, waitlist |-> waitlist,
       fleet |-> fleet, activities |-> activities]

(***************************************************************************)
(* location.py                                                             *)
(***************************************************************************)
Abs(n) == IF n < 0 THEN -n ELSE n

\* The distance without abs().
manhattan_distance_signed(origin, destination) ==
    IF destination = None \/ origin = None
    THEN [exc |-> "AttributeError", val |-> 0]
    ELSE [exc |-> "none",
          val |-> (destination[1] - origin[1]) + (destination[2] - origin[2])]

\* abs(destination.row - origin.row) + abs(destination.column - origin.column);
\* reading .row of None raises AttributeError.
manhattan_distance(origin, destination) ==
    IF destination = None \/ origin = None
    THEN [exc |-> "AttributeError", val |-> 0]
    ELSE [exc |-> "none",
          val |-> Abs(destination[1] - origin[1]) + Abs(destination[2] - origin[2])]

(***************************************************************************)
(* driver.py                                                               *)
(***************************************************************************)
\* Rounding to nearest with ties away from zero.
PyRoundHalfUp(a, b) == (2 * a + b) \div (2 * b)

\* Python 3 round(a / b) for integers a >= 0, b > 0: to nearest, ties to even.
PyRound(a, b) ==
    LET q == a \div b
        r == a % b
    IN IF 2 * r < b THEN q
       ELSE IF 2 * r > b THEN q + 1
       ELSE IF q % 2 = 0 THEN q ELSE q + 1

Driver_init(location, speed) ==
    [location |-> location, speed |-> speed, is_idle |-> TRUE,
     destination |-> None, _passenger |-> NoId]

get_travel_time(dr, destination) ==
    LET m == manhattan_distance(dr.location, destination)
    IN IF m.exc # "none" THEN m
       ELSE IF dr.speed = 0 THEN [exc |-> "ZeroDivisionError", val |-> 0]
       ELSE [exc |-> "none", val |-> PyRound(m.val, dr.speed)]

start_drive(dr, location) ==
    LET d1 == [dr EXCEPT !.destination = location]
        tt == get_travel_time(d1, d1.destination)
    IN [drv |-> d1, exc |-> tt.exc, val |-> tt.val]

end_drive(dr) == [dr EXCEPT !.location = dr.destination]

\* end_ride without "self.location = self.destination".
end_ride_without_arrival(dr) ==
    [dr EXCEPT !._passenger = NoId, !.destination = None, !.is_idle = TRUE]

\* rid is rider.id and rdest is rider.destination
start_ride(dr, rid, rdest) ==
    LET d1 == [dr EXCEPT !._passenger = rid, !.destination = rdest, !.is_idle = FALSE]
        tt == get_travel_time(d1, rdest)
    IN [drv |-> d1, exc |-> tt.exc, val |-> tt.val]

end_ride(dr) ==
    [dr EXCEPT !._passenger = NoId, !.location = dr.destination,
               !.destination = None, !.is_idle = TRUE]

(***************************************************************************)
(* rider.py                                                                *)
(***************************************************************************)
Rider_init(origin, destination, patience) ==
    [origin |-> origin, destination |-> destination, patience |-> patience,
     _status |-> WAITING]

(***************************************************************************)
(* event.py: Event and its ordering                                        *)
(***************************************************************************)
\* An Event object: its class, its timestamp and its rider and driver
\* attributes (NoId where the class has none).  n is the object's identity in
\* the engine's queue: the rank of its insertion, 0 before it is inserted.
Ev(kind, timestamp, r, d) ==
    [kind |-> kind, timestamp |-> timestamp, rider |-> r, driver |-> d, n |-> 0]

Event_lt(a, b) == a.timestamp < b.timestamp

(***************************************************************************)
(* container.py                                                            *)
(***************************************************************************)
\* A sort that is not stable: the new item moves left past the items equal
\* to it as well (a bug PriorityQueue.add could have).
RECURSIVE InsertLastBeforeEqual(_, _)
InsertLastBeforeEqual(s, x) ==
    IF s = <<>> THEN <<x>>
    ELSE IF ~Event_lt(s[Len(s)], x)
         THEN Append(InsertLastBeforeEqual(SubSeq(s, 1, Len(s) - 1), x), s[Len(s)])
         ELSE Append(s, x)

\* list.sort(): stable, comparing with __lt__ only.  InsertLast moves the last
\* item left while it is less than its predecessor.
RECURSIVE InsertLast(_, _)
InsertLast(s, x) ==
    IF s = <<>> THEN <<x>>
    ELSE IF Event_lt(x, s[Len(s)])
         THEN Append(InsertLast(SubSeq(s, 1, Len(s) - 1), x), s[Len(s)])
         ELSE Append(s, x)

RECURSIVE list_sort(_)
list_sort(s) ==
    IF s = <<>> THEN <<>>
    ELSE InsertLast(list_sort(SubSeq(s, 1, Len(s) - 1)), s[Len(s)])

\* An add that appends and does not sort.
PriorityQueue_add_unsorted(items, item) == Append(items, item)

\* self._items.append(item); self._items.sort()
PriorityQueue_add(items, item) == list_sort(Append(items, item))

\* self._items.pop(0)
PriorityQueue_remove(items) ==
    IF items = <<>> THEN [items |-> items, exc |-> "IndexError", val |-> <<>>]
    ELSE [items |-> Tail(items), exc |-> "none", val |-> <<Head(items)>>]

PriorityQueue_is_empty(items) == Len(items) = 0

Queue_add(items, obj) == Append(items, obj)

\* list.remove(x): drops the first item equal to x.
RECURSIVE list_remove(_, _)
list_remove(s, x) ==
    IF s = <<>> THEN <<>>
    ELSE IF Head(s) = x THEN Tail(s)
    ELSE <<Head(s)>> \o list_remove(Tail(s), x)

\* Queue.remove(object=None); object is NoId for None.  With an object given
\* the code drops it from the list and then pops the first item as well.
Queue_remove(items, object) ==
    IF object # NoId /\ \A i \in 1..Len(items) : items[i] # object
    THEN [items |-> items, exc |-> "NotImplementedError", val |-> <<>>]
    ELSE LET rest == IF object # NoId THEN list_remove(items, object) ELSE items
         IN IF rest = <<>>
            THEN [items |-> rest, exc |-> "IndexError", val |-> <<>>]
            ELSE [items |-> Tail(rest), exc |-> "none", val |-> <<Head(rest)>>]

Queue_is_empty(items) == items = <<>>

(***************************************************************************)
(* monitor.py                                                              *)
(***************************************************************************)
Monitor_init == [c \in {RIDER, DRIVER} |-> <<>>]

Activity(timestamp, description, identifier, location) ==
    [time |-> timestamp, description |-> description, id |-> identifier,
     location |-> location]

\* _activities[category] is a dict: a function whose domain is the set of the
\* identifiers notified so far.
notify(acts, timestamp, category, description, identifier, location) ==
    LET old == acts[category]
        cur == IF identifier \in DOMAIN old THEN old[identifier] ELSE <<>>
        new == Append(cur, Activity(timestamp, description, identifier, location))
    IN [acts EXCEPT ![category] =
            [i \in (DOMAIN old) \cup {identifier} |->
                IF i = identifier THEN new ELSE old[i]]]

\* n / d of two ints, d > 0: the float, kept as a fraction in lowest terms;
\* the int 0 that is returned for an empty category is the fraction 0 / 1.
RECURSIVE GCD(_, _)
GCD(a, b) == IF b = 0 THEN a ELSE GCD(b, a % b)

TrueDiv(n, d) == LET g == GCD(Abs(n), d) IN <<n \div g, d \div g>>

RECURSIVE SumOver(_, _)
SumOver(f, S) ==
    IF S = {} THEN 0
    ELSE LET x == CHOOSE y \in S : TRUE IN f[x] + SumOver(f, S \ {x})

\* The waits of one rider: for each REQUEST but a last activity, the time from
\* it to the activity after it.
WaitOf(log) ==
    SumOver([i \in 1..Len(log) - 1 |->
                IF log[i].description = REQUEST
                THEN log[i + 1].time - log[i].time ELSE 0],
            1..Len(log) - 1)

_average_wait_time(acts) ==
    LET ids == DOMAIN acts[RIDER]
        wait_time == SumOver([r \in ids |-> WaitOf(acts[RIDER][r])], ids)
        count == Cardinality(ids)
    IN IF count # 0 THEN TrueDiv(wait_time, count) ELSE TrueDiv(0, 1)

\* The steps i -> i + 1 of all drivers' histories, but the last `left` of
\* each.
Steps(acts, left) ==
    UNION {{<<d, i>> : i \in 1..Len(acts[DRIVER][d]) - left}
           : d \in DOMAIN acts[DRIVER]}

\* The sum of the distances of the steps; a location of None among them
\* raises AttributeError.
Distance(acts, steps) ==
    LET dist == [x \in steps |->
                    manhattan_distance(acts[DRIVER][x[1]][x[2]].location,
                                       acts[DRIVER][x[1]][x[2] + 1].location)]
    IN IF \E x \in steps : dist[x].exc # "none"
       THEN [exc |-> "AttributeError", val |-> 0]
       ELSE [exc |-> "none", val |-> SumOver([x \in steps |-> dist[x].val], steps)]

\* The loop variable shadows the parameter: the sum is over every driver.
\* "REQUEST in current.description" is equality on the four descriptions.
get_riderless_distance(acts, drv) ==
    Distance(acts, {x \in Steps(acts, 2) :
                       acts[DRIVER][x[1]][x[2]].description = REQUEST})

get_ride_distance(acts, drv) ==
    Distance(acts, {x \in Steps(acts, 1) :
                       /\ acts[DRIVER][x[1]][x[2]].description = PICKUP
                       /\ acts[DRIVER][x[1]][x[2] + 1].description = DROPOFF})

\* range(len(self._activities[DRIVER]) - 1): one turn less than there are
\* drivers, count starting at 1.
_average_total_distance(acts) ==
    LET n == Cardinality(DOMAIN acts[DRIVER])
        turns == IF n > 1 THEN n - 1 ELSE 0
        riderless == get_riderless_distance(acts, 0)
        ride == get_ride_distance(acts, 0)
    IN IF turns > 0 /\ (riderless.exc # "none" \/ ride.exc # "none")
       THEN [exc |-> "AttributeError", val |-> <<>>]
       ELSE [exc |-> "none",
             val |-> TrueDiv(turns * (riderless.val + ride.val), 1 + turns)]

_average_ride_distance(acts) ==
    LET count == Cardinality(DOMAIN acts[DRIVER])
        ride == get_ride_distance(acts, 0)
    IN IF count # 0 /\ ride.exc # "none"
       THEN [exc |-> "AttributeError", val |-> <<>>]
       ELSE [exc |-> "none",
             val |-> IF count # 0 THEN TrueDiv(count * ride.val, count)
                     ELSE TrueDiv(0, 1)]

report(acts) ==
    LET total == _average_total_distance(acts)
        ride == _average_ride_distance(acts)
    IN IF total.exc # "none" \/ ride.exc # "none"
       THEN [exc |-> "AttributeError", val |-> <<>>]
       ELSE [exc |-> "none",
             val |-> [rider_wait_time |-> _average_wait_time(acts),
                      driver_total_distance |-> total.val,
                      driver_ride_distance |-> ride.val]]

(***************************************************************************)
(* dispatcher.py                                                           *)
(***************************************************************************)
\* "for driver in self._fleet": PriorityQueue defines neither __iter__ nor
\* __getitem__, so the statement raises TypeError before the loop body runs,
\* whatever the fleet holds.
request_driver(S, r) == [st |-> S, exc |-> "TypeError", val |-> <<>>]

\* "if driver not in self._fleet": PriorityQueue defines none of __contains__,
\* __iter__, __getitem__, so the test raises TypeError before the driver is
\* added to the fleet.
request_rider(S, d) == [st |-> S, exc |-> "TypeError", val |-> <<>>]

\* "range(len(self._waitlist) - 1)": Queue defines no __len__: TypeError.
remove_from_waitlist(S, r) == [st |-> S, exc |-> "TypeError", val |-> <<>>]

\* "rider.status = CANCELLED": dispatcher.py imports only Rider from rider, so
\* the name CANCELLED is unbound and evaluating it raises NameError before the
\* assignment.
cancel_ride(S, r) == [st |-> S, exc |-> "NameError", val |-> <<>>]

\* "rider.status = SATISFIED": NameError, as for cancel_ride.
end_wait(S, r) == [st |-> S, exc |-> "NameError", val |-> <<>>]

(***************************************************************************)
(* event.py: the five events' do(dispatcher, monitor)                      *)
(***************************************************************************)
Raised(S, exc) == [st |-> S, exc |-> exc, val |-> <<>>]

Returned(S, val) == [st |-> S, exc |-> "none", val |-> val]

\* A request notified under the description of a cancellation.
RiderRequest_do_notify_cancel(S, t, r) ==
    LET S1 == [S EXCEPT !.activities =
                  notify(S.activities, t, RIDER, CANCEL, r, S.rider[r].origin)]
        rd == request_driver(S1, r)
    IN IF rd.exc # "none" THEN Raised(rd.st, rd.exc)
       ELSE LET cancellation ==
                    Ev("Cancellation", t + rd.st.rider[r].patience, r, NoId)
            IN IF rd.val = <<>> THEN Returned(rd.st, <<cancellation>>)
               ELSE LET d == rd.val[1]
                        sd == start_drive(rd.st.driver[d], rd.st.rider[r].origin)
                        S2 == [rd.st EXCEPT !.driver[d] = sd.drv]
                    IN IF sd.exc # "none" THEN Raised(S2, sd.exc)
                       ELSE Returned(S2, <<Ev("Pickup", t + sd.val, r, d),
                                           cancellation>>)

RiderRequest_do(S, t, r) ==
    LET S1 == [S EXCEPT !.activities =
                  notify(S.activities, t, RIDER, REQUEST, r, S.rider[r].origin)]
        rd == request_driver(S1, r)
    IN IF rd.exc # "none" THEN Raised(rd.st, rd.exc)
       ELSE LET cancellation ==
                    Ev("Cancellation", t + rd.st.rider[r].patience, r, NoId)
            IN IF rd.val = <<>> THEN Returned(rd.st, <<cancellation>>)
               ELSE LET d == rd.val[1]
                        sd == start_drive(rd.st.driver[d], rd.st.rider[r].origin)
                        S2 == [rd.st EXCEPT !.driver[d] = sd.drv]
                    IN IF sd.exc # "none" THEN Raised(S2, sd.exc)
                       ELSE Returned(S2, <<Ev("Pickup", t + sd.val, r, d),
                                           cancellation>>)

DriverRequest_do(S, t, d) ==
    LET S1 == [S EXCEPT !.activities =
                  notify(S.activities, t, DRIVER, REQUEST, d, S.driver[d].location)]
        rr == request_rider(S1, d)
    IN IF rr.exc # "none" THEN Raised(rr.st, rr.exc)
       ELSE IF rr.val = <<>> THEN Returned(rr.st, <<>>)
       ELSE LET r == rr.val[1]
                sd == start_drive(rr.st.driver[d], rr.st.rider[r].origin)
                S2 == [rr.st EXCEPT !.driver[d] = sd.drv]
            IN IF sd.exc # "none" THEN Raised(S2, sd.exc)
               ELSE Returned(S2, <<Ev("Pickup", t + sd.val, r, d)>>)

Cancellation_do(S, t, r) ==
    LET S1 == [S EXCEPT !.activities =
                  notify(S.activities, t, RIDER, CANCEL, r, S.rider[r].origin)]
        cr == cancel_ride(S1, r)
    IN IF cr.exc # "none" THEN Raised(cr.st, cr.exc)
       ELSE LET rw == remove_from_waitlist(cr.st, r)
            IN IF rw.exc # "none" THEN Raised(rw.st, rw.exc)
               ELSE Returned(rw.st, <<>>)

\* Pickup.do without its second "if".
Pickup_return_without_request(S, t, r, d, evs) == Returned(S, evs)

\* The second "if" of Pickup.do and its return.
Pickup_return(S, t, r, d, evs) ==
    Returned(S, IF S.rider[r]._status = CANCELLED
                THEN Append(evs, Ev("DriverRequest", t, NoId, d))
                ELSE evs)

Pickup_do(S, t, r, d) ==
    LET S0 == [S EXCEPT !.driver[d] = end_drive(S.driver[d])]
    IN IF S0.rider[r]._status = WAITING
       THEN LET a1 == notify(S0.activities, t, DRIVER, PICKUP, d, S0.rider[r].origin)
                a2 == notify(a1, t, RIDER, PICKUP, r, S0.rider[r].origin)
                sr == start_ride(S0.driver[d], r, S0.rider[r].destination)
                S1 == [S0 EXCEPT !.activities = a2, !.driver[d] = sr.drv]
            IN IF sr.exc # "none" THEN Raised(S1, sr.exc)
               ELSE LET evs == <<Ev("Dropoff", t + sr.val, r, d)>>
                        rw == remove_from_waitlist(S1, r)
                    IN IF rw.exc # "none" THEN Raised(rw.st, rw.exc)
                       ELSE LET ew == end_wait(rw.st, r)
                            IN IF ew.exc # "none" THEN Raised(ew.st, ew.exc)
                               ELSE Pickup_return(ew.st, t, r, d, evs)
       ELSE Pickup_return(S0, t, r, d, <<>>)

\* A Dropoff whose DriverRequest is stamped one tick early.
Dropoff_do_early_request(S, t, r, d) ==
    LET a1 == notify(S.activities, t, DRIVER, DROPOFF, d, S.rider[r].destination)
        a2 == notify(a1, t, RIDER, DROPOFF, r, S.rider[r].destination)
        S1 == [S EXCEPT !.activities = a2, !.driver[d] = end_ride(S.driver[d])]
    IN Returned(S1, <<Ev("DriverRequest", t - 1, NoId, d)>>)

Dropoff_do(S, t, r, d) ==
    LET a1 == notify(S.activities, t, DRIVER, DROPOFF, d, S.rider[r].destination)
        a2 == notify(a1, t, RIDER, DROPOFF, r, S.rider[r].destination)
        S1 == [S EXCEPT !.activities = a2, !.driver[d] = end_ride(S.driver[d])]
    IN Returned(S1, <<Ev("DriverRequest", t, NoId, d)>>)

\* e.do(dispatcher, monitor), dispatched on the event's class.
Event_do(S, e) ==
    CASE e.kind = "RiderRequest" -> RiderRequest_do(S, e.timestamp, e.rider)
      [] e.kind = "DriverRequest" -> DriverRequest_do(S, e.timestamp, e.driver)
      [] e.kind = "Cancellation" -> Cancellation_do(S, e.timestamp, e.rider)
      [] e.kind = "Pickup" -> Pickup_do(S, e.timestamp, e.rider, e.driver)
      [] e.kind = "Dropoff" -> Dropoff_do(S, e.timestamp, e.rider, e.driver)

(***************************************************************************)
(* Construction: Rider(...), Driver(...), Dispatcher(), Monitor().          *)
(***************************************************************************)
\* The state after construction with rider r1 = Rider(o, d, p) and driver
\* d1 = Driver(l, s); r2 and d2 are their mirror images, so that each of the
\* four takes every value within the bounds in some initial state.
Mirror(l) == <<MaxCoord - l[1], MaxCoord - l[2]>>

World(o, d, p, l, s) ==
    /\ rider = [r \in Riders |->
                  IF r = "r1" THEN Rider_init(o, d, p)
                  ELSE Rider_init(Mirror(d), Mirror(o), MaxPatience - p)]
    /\ driver = [x \in Drivers |->
                  IF x = "d1" THEN Driver_init(l, s)
                  ELSE Driver_init(Mirror(l), MaxSpeed + 1 - s)]
    /\ waitlist = <<>>
    /\ fleet = <<>>
    /\ activities = Monitor_init
    /\ ret = [op |-> "init", t |-> 0, rider |-> NoId, driver |-> NoId,
              exc |-> "none", val |-> <<>>]
    /\ events = <<>>
    /\ applied = <<>>
    /\ phase = "load"
    /\ serial = 0
    /\ calls = 0
    /\ scenario = [rider |-> rider, driver |-> driver, seeds |-> <<>>]
    /\ previous = <<>>

Init ==
    \E o \in Locations, d \in Locations, p \in 0..MaxPatience,
       l \in Locations, s \in 1..MaxSpeed : World(o, d, p, l, s)

\* A call of operation op with arguments t, r, d that ended as out.
Call(op, t, r, d, out) ==
    /\ calls < MaxCalls
    /\ calls' = calls + 1
    /\ rider' = out.st.rider
    /\ driver' = out.st.driver
    /\ waitlist' = out.st.waitlist
    /\ fleet' = out.st.fleet
    /\ activities' = out.st.activities
    /\ ret' = [op |-> op, t |-> t, rider |-> r, driver |-> d,
               exc |-> out.exc, val |-> out.val]
    /\ UNCHANGED <<scenario, previous>>

(***************************************************************************)
(* A client of the classes: any call of a public method, in any order.     *)
(***************************************************************************)
CallRequestDriver(r) ==
    /\ Call("request_driver", 0, r, NoId, request_driver(St, r))
    /\ UNCHANGED <<events, applied, phase, serial>>

CallRequestRider(d) ==
    /\ Call("request_rider", 0, NoId, d, request_rider(St, d))
    /\ UNCHANGED <<events, applied, phase, serial>>

CallRemoveFromWaitlist(r) ==
    /\ Call("remove_from_waitlist", 0, r, NoId, remove_from_waitlist(St, r))
    /\ UNCHANGED <<events, applied, phase, serial>>

CallCancelRide(r) ==
    /\ Call("cancel_ride", 0, r, NoId, cancel_ride(St, r))
    /\ UNCHANGED <<events, applied, phase, serial>>

CallEndWait(r) ==
    /\ Call("end_wait", 0, r, NoId, end_wait(St, r))
    /\ UNCHANGED <<events, applied, phase, serial>>

CallStartDrive(d, l) ==
    LET sd == start_drive(driver[d], l)
    IN /\ Call("start_drive", 0, NoId, d,
               [st |-> [St EXCEPT !.driver[d] = sd.drv], exc |-> sd.exc,
                val |-> IF sd.exc = "none" THEN <<sd.val>> ELSE <<>>])
       /\ UNCHANGED <<events, applied, phase, serial>>

CallEndDrive(d) ==
    /\ Call("end_drive", 0, NoId, d,
            Returned([St EXCEPT !.driver[d] = end_drive(driver[d])], <<>>))
    /\ UNCHANGED <<events, applied, phase, serial>>

CallStartRide(d, r) ==
    LET sr == start_ride(driver[d], r, rider[r].destination)
    IN /\ Call("start_ride", 0, r, d,
               [st |-> [St EXCEPT !.driver[d] = sr.drv], exc |-> sr.exc,
                val |-> IF sr.exc = "none" THEN <<sr.val>> ELSE <<>>])
       /\ UNCHANGED <<events, applied, phase, serial>>

CallEndRide(d) ==
    /\ Call("end_ride", 0, NoId, d,
            Returned([St EXCEPT !.driver[d] = end_ride(driver[d])], <<>>))
    /\ UNCHANGED <<events, applied, phase, serial>>

\* Event(...).do(dispatcher, monitor) on an event the client built.
DoRiderRequest(t, r) ==
    LET e == Ev("RiderRequest", t, r, NoId)
    IN /\ Call(e.kind, t, r, NoId, Event_do(St, e))
       /\ UNCHANGED <<events, applied, phase, serial>>

DoDriverRequest(t, d) ==
    LET e == Ev("DriverRequest", t, NoId, d)
    IN /\ Call(e.kind, t, NoId, d, Event_do(St, e))
       /\ UNCHANGED <<events, applied, phase, serial>>

DoCancellation(t, r) ==
    LET e == Ev("Cancellation", t, r, NoId)
    IN /\ Call(e.kind, t, r, NoId, Event_do(St, e))
       /\ UNCHANGED <<events, applied, phase, serial>>

DoPickup(t, r, d) ==
    LET e == Ev("Pickup", t, r, d)
    IN /\ Call(e.kind, t, r, d, Event_do(St, e))
       /\ UNCHANGED <<events, applied, phase, serial>>

DoDropoff(t, r, d) ==
    LET e == Ev("Dropoff", t, r, d)
    IN /\ Call(e.kind, t, r, d, Event_do(St, e))
       /\ UNCHANGED <<events, applied, phase, serial>>

Next ==
    \/ \E r \in Riders : CallRequestDriver(r)
    \/ \E d \in Drivers : CallRequestRider(d)
    \/ \E r \in Riders : CallRemoveFromWaitlist(r)
    \/ \E r \in Riders : CallCancelRide(r)
    \/ \E r \in Riders : CallEndWait(r)
    \/ \E d \in Drivers, l \in Locations : CallStartDrive(d, l)
    \/ \E d \in Drivers : CallEndDrive(d)
    \/ \E d \in Drivers, r \in Riders : CallStartRide(d, r)
    \/ \E d \in Drivers : CallEndRide(d)
    \/ \E t \in 0..MaxTime, r \in Riders : DoRiderRequest(t, r)
    \/ \E t \in 0..MaxTime, d \in Drivers : DoDriverRequest(t, d)
    \/ \E t \in 0..MaxTime, r \in Riders : DoCancellation(t, r)
    \/ \E t \in 0..MaxTime, r \in Riders, d \in Drivers : DoPickup(t, r, d)
    \/ \E t \in 0..MaxTime, r \in Riders, d \in Drivers : DoDropoff(t, r, d)

Spec == Init /\ [][Next]_vars

(***************************************************************************)
(* The simulation engine.  It loads the seed events of the scenario into   *)
(* its PriorityQueue, then repeats: remove the next event, do it, add the  *)
(* events it returns.  An exception raised by an event leaves the loop and *)
(* ends the run.  create_event_list builds DriverRequest and RiderRequest  *)
(* events only.                                                            *)
(***************************************************************************)
\* A run's riders and drivers: r1 goes from one corner of the grid to the
\* other, d1 starts in r1's corner; patience and speed take every value.
InitRun ==
    \E p \in 0..MaxPatience, s \in 1..MaxSpeed :
        World(<<0, 0>>, <<MaxCoord, MaxCoord>>, p, <<0, 0>>, s)

SeedEvents ==
    {Ev("RiderRequest", t, r, NoId) : t \in 0..MaxTime, r \in Riders}
    \cup {Ev("DriverRequest", t, NoId, d) : t \in 0..MaxTime, d \in Drivers}

\* Add the events of evs to the queue, in order; the k-th gets identity n + k.
RECURSIVE AddAll(_, _, _)
AddAll(items, evs, n) ==
    IF evs = <<>> THEN items
    ELSE AddAll(PriorityQueue_add(items, [Head(evs) EXCEPT !.n = n + 1]),
                Tail(evs), n + 1)

Seed(e) ==
    /\ phase = "load"
    /\ serial < MaxSeeds
    /\ events' = AddAll(events, <<e>>, serial)
    /\ serial' = serial + 1
    /\ scenario' = [scenario EXCEPT !.seeds = Append(@, e)]
    /\ UNCHANGED <<rider, driver, waitlist, fleet, activities, ret,
                   applied, phase, calls, previous>>

Step ==
    /\ phase \in {"load", "run"}
    /\ ~PriorityQueue_is_empty(events)
    /\ LET rem == PriorityQueue_remove(events)
           e == rem.val[1]
           out == Event_do(St, e)
       IN /\ applied' = Append(applied, e)
          /\ rider' = out.st.rider
          /\ driver' = out.st.driver
          /\ waitlist' = out.st.waitlist
          /\ fleet' = out.st.fleet
          /\ activities' = out.st.activities
          /\ ret' = [op |-> e.kind, t |-> e.timestamp, rider |-> e.rider,
                     driver |-> e.driver, exc |-> out.exc, val |-> out.val]
          /\ IF out.exc # "none"
             THEN /\ phase' = "aborted"
                  /\ events' = rem.items
                  /\ serial' = serial
             ELSE /\ phase' = "run"
                  /\ events' = AddAll(rem.items, out.val, serial)
                  /\ serial' = serial + Len(out.val)
    /\ UNCHANGED <<calls, scenario, previous>>

NextRun ==
    \/ \E e \in SeedEvents : Seed(e)
    \/ Step

SpecRun == InitRun /\ [][NextRun]_vars

\* The engine's loop keeps going while the queue holds an event: a Step that
\* stays possible is eventually taken.
SpecRunFair == SpecRun /\ WF_vars(Step)

(***************************************************************************)
(* The scenario run twice.  When the run is over, what it left is kept,    *)
(* and the scenario is run again: the riders and drivers are created anew, *)
(* with a new dispatcher and a new monitor, and the same seed events are   *)
(* loaded in the same order.                                               *)
(***************************************************************************)
\* The run is over: an event raised, or the queue was drained.
RunEnded == phase = "aborted" \/ (phase = "run" /\ events = <<>>)

\* What a run leaves: how it ended, the events it applied (the order of its
\* notifications), what the monitor holds, and the report made of that.
Outcome ==
    [phase |-> phase, applied |-> applied, notifications |-> activities,
     report |-> report(activities)]

\* A monitor that the runs share, as a class attribute would be.
NewRun_shared_monitor(scn) ==
    [rider |-> scn.rider, driver |-> scn.driver, waitlist |-> <<>>,
     fleet |-> <<>>, activities |-> activities]

\* The objects of a new run of scenario scn.
NewRun(scn) ==
    [rider |-> scn.rider, driver |-> scn.driver, waitlist |-> <<>>,
     fleet |-> <<>>, activities |-> Monitor_init]

Rerun ==
    /\ RunEnded
    /\ previous = <<>>
    /\ previous' = <<Outcome>>
    /\ LET S == NewRun(scenario)
       IN /\ rider' = S.rider
          /\ driver' = S.driver
          /\ waitlist' = S.waitlist
          /\ fleet' = S.fleet
          /\ activities' = S.activities
    /\ events' = AddAll(<<>>, scenario.seeds, 0)
    /\ serial' = Len(scenario.seeds)
    /\ applied' = <<>>
    /\ phase' = "run"
    /\ ret' = [op |-> "init", t |-> 0, rider |-> NoId, driver |-> NoId,
               exc |-> "none", val |-> <<>>]
    /\ UNCHANGED <<calls, scenario>>

NextTwice ==
    \/ \E e \in SeedEvents : Seed(e)
    \/ Step
    \/ Rerun

SpecTwice == InitRun /\ [][NextTwice]_vars

(***************************************************************************)
(* A client of the drivers' drives and rides and of Pickup.do and          *)
(* Dropoff.do that hands them riders of every status.  No method of        *)
(* dispatcher.py assigns a rider's _status (cancel_ride and end_wait raise *)
(* before assigning), so the client sets the attribute on the Rider        *)
(* objects it builds: "r._status = CANCELLED".                             *)
(***************************************************************************)
Statuses == {WAITING, CANCELLED, SATISFIED}

InitUnit ==
    \E s1 \in Statuses, s2 \in Statuses, s \in 1..MaxSpeed :
        /\ rider = [r \in Riders |->
                      IF r = "r1"
                      THEN [Rider_init(<<0, 0>>, <<MaxCoord, MaxCoord>>, MaxPatience)
                              EXCEPT !._status = s1]
                      ELSE [Rider_init(<<MaxCoord, MaxCoord>>, <<0, 0>>, 0)
                              EXCEPT !._status = s2]]
        /\ driver = [x \in Drivers |->
                      IF x = "d1" THEN Driver_init(<<0, 0>>, s)
                      ELSE Driver_init(<<MaxCoord, MaxCoord>>, MaxSpeed + 1 - s)]
        /\ waitlist = <<>>
        /\ fleet = <<>>
        /\ activities = Monitor_init
        /\ ret = [op |-> "init", t |-> 0, rider |-> NoId, driver |-> NoId,
                  exc |-> "none", val |-> <<>>]
        /\ events = <<>>
        /\ applied = <<>>
        /\ phase = "load"
        /\ serial = 0
        /\ calls = 0
        /\ scenario = [rider |-> rider, driver |-> driver, seeds |-> <<>>]
        /\ previous = <<>>

NextUnit ==
    \/ \E d \in Drivers, l \in Locations : CallStartDrive(d, l)
    \/ \E d \in Drivers, r \in Riders : CallStartRide(d, r)
    \/ \E t \in 0..MaxTime, r \in Riders, d \in Drivers : DoPickup(t, r, d)
    \/ \E t \in 0..MaxTime, r \in Riders, d \in Drivers : DoDropoff(t, r, d)

SpecUnit == InitUnit /\ [][NextUnit]_vars

(***************************************************************************)
(* A client of the five events: do() of events of every kind, on riders of *)
(* every status and on drivers idle or on a ride.                          *)
(***************************************************************************)
NextEvents ==
    \/ \E d \in Drivers, r \in Riders : CallStartRide(d, r)
    \/ \E t \in 0..MaxTime, r \in Riders : DoRiderRequest(t, r)
    \/ \E t \in 0..MaxTime, d \in Drivers : DoDriverRequest(t, d)
    \/ \E t \in 0..MaxTime, r \in Riders : DoCancellation(t, r)
    \/ \E t \in 0..MaxTime, r \in Riders, d \in Drivers : DoPickup(t, r, d)
    \/ \E t \in 0..MaxTime, r \in Riders, d \in Drivers : DoDropoff(t, r, d)

SpecEvents == InitUnit /\ [][NextEvents]_vars

(***************************************************************************)
(* A client of the two distance functions: manhattan_distance on any two   *)
(* locations and get_travel_time of a driver of any location and speed to  *)
(* any location.  ret records the locations passed.                        *)
(***************************************************************************)
InitTravel ==
    \E l \in Locations, s \in 1..MaxSpeed :
        World(<<0, 0>>, <<MaxCoord, MaxCoord>>, MaxPatience, l, s)

CallManhattanDistance(origin, destination) ==
    LET m == manhattan_distance(origin, destination)
    IN /\ calls < MaxCalls
       /\ calls' = calls + 1
       /\ ret' = [op |-> "manhattan_distance", t |-> 0, rider |-> NoId,
                  driver |-> NoId, exc |-> m.exc, val |-> <<m.val>>,
                  origin |-> origin, destination |-> destination]
       /\ UNCHANGED <<rider, driver, waitlist, fleet, activities, events,
                      applied, phase, serial, scenario, previous>>

CallGetTravelTime(d, destination) ==
    LET tt == get_travel_time(driver[d], destination)
    IN /\ calls < MaxCalls
       /\ calls' = calls + 1
       /\ ret' = [op |-> "get_travel_time", t |-> 0, rider |-> NoId,
                  driver |-> d, exc |-> tt.exc, val |-> <<tt.val>>,
                  origin |-> driver[d].location, destination |-> destination]
       /\ UNCHANGED <<rider, driver, waitlist, fleet, activities, events,
                      applied, phase, serial, scenario, previous>>

NextTravel ==
    \/ \E a \in Locations, b \in Locations : CallManhattanDistance(a, b)
    \/ \E d \in Drivers, l \in Locations : CallGetTravelTime(d, l)

SpecTravel == InitTravel /\ [][NextTravel]_vars

(***************************************************************************)
(* A client of the containers: a PriorityQueue of events and a Queue of    *)
(* riders, with add and remove called in any order.  applied lists what    *)
(* the PriorityQueue's remove returned; phase is "load" while only adds    *)
(* were made to it, "run" once an item was removed, and "mixed" once an    *)
(* item was added after a removal.  The two containers share nothing, so   *)
(* the client uses them one after the other: the Queue first, and the      *)
(* PriorityQueue once the Queue is empty again.                            *)
(***************************************************************************)
InitQueue == World(<<0, 0>>, <<MaxCoord, MaxCoord>>, MaxPatience, <<0, 0>>, 1)

CallPriorityQueueAdd(e) ==
    /\ serial < MaxSeeds
    /\ waitlist = <<>>
    /\ events' = PriorityQueue_add(events, [e EXCEPT !.n = serial + 1])
    /\ serial' = serial + 1
    /\ phase' = IF phase = "load" THEN "load" ELSE "mixed"
    /\ ret' = [op |-> "PriorityQueue.add", t |-> e.timestamp, rider |-> e.rider,
               driver |-> e.driver, exc |-> "none", val |-> <<>>]
    /\ UNCHANGED <<rider, driver, waitlist, fleet, activities, applied, calls,
                   scenario, previous>>

CallPriorityQueueRemove ==
    LET rem == PriorityQueue_remove(events)
    IN /\ events' = rem.items
       /\ applied' = applied \o rem.val
       /\ phase' = IF rem.exc = "none" /\ phase = "load" THEN "run" ELSE phase
       /\ ret' = [op |-> "PriorityQueue.remove", t |-> 0, rider |-> NoId,
                  driver |-> NoId, exc |-> rem.exc, val |-> rem.val]
       /\ UNCHANGED <<rider, driver, waitlist, fleet, activities, serial, calls,
                      scenario, previous>>

CallQueueAdd(r) ==
    /\ Len(waitlist) < MaxWait
    /\ serial = 0
    /\ waitlist' = Queue_add(waitlist, r)
    /\ ret' = [op |-> "Queue.add", t |-> 0, rider |-> r, driver |-> NoId,
               exc |-> "none", val |-> <<>>]
    /\ UNCHANGED <<rider, driver, fleet, activities, events, applied, phase,
                   serial, calls, scenario, previous>>

CallQueueRemove(object) ==
    LET rem == Queue_remove(waitlist, object)
    IN /\ serial = 0
       /\ waitlist' = rem.items
       /\ ret' = [op |-> "Queue.remove", t |-> 0, rider |-> object,
                  driver |-> NoId, exc |-> rem.exc, val |-> rem.val]
       /\ UNCHANGED <<rider, driver, fleet, activities, events, applied, phase,
                      serial, calls, scenario, previous>>

NextQueue ==
    \/ \E e \in SeedEvents : CallPriorityQueueAdd(e)
    \/ CallPriorityQueueRemove
    \/ \E r \in Riders : CallQueueAdd(r)
    \/ \E object \in Riders \cup {NoId} : CallQueueRemove(object)

SpecQueue == InitQueue /\ [][NextQueue]_vars

(***************************************************************************)
(* Properties.                                                             *)
(***************************************************************************)
Range(s) == {s[i] : i \in 1..Len(s)}

\* The step is a call the client makes.
IsCall(op) == ret'.op = op /\ calls' = calls + 1

\* What the exceptions above leave of the dispatcher: no call that asks for a
\* driver or a rider returns, the fleet and the wait-list stay empty, and no
\* rider leaves WAITING.
NoRequestReturns ==
    ret.op \in {"request_driver", "request_rider", "RiderRequest", "DriverRequest"}
    => ret.exc # "none"

DispatcherStaysEmpty == fleet = <<>> /\ waitlist = <<>>

RidersStayWaiting == \A r \in Riders : rider[r]._status = WAITING

\* A run applies the requests of its scenario and nothing else: they all
\* raise, so no Pickup, Dropoff or Cancellation is ever scheduled.
NoPickupApplied ==
    \A i \in 1..Len(applied) : applied[i].kind \in {"RiderRequest", "DriverRequest"}

\* C6: when no fleet driver is idle (all busy, or the fleet empty),
\* request_driver(rider) appends the rider to the back of the wait-list,
\* returns None and leaves the fleet and every driver unchanged.
C6_RequestDriverWaitlistsRider ==
    [][\A r \in Riders :
          (/\ IsCall("request_driver")
           /\ ret'.rider = r
           /\ \A i \in 1..Len(fleet) : ~driver[fleet[i]].is_idle)
          => /\ ret'.exc = "none"
             /\ ret'.val = <<>>
             /\ waitlist' = Append(waitlist, r)
             /\ fleet' = fleet
             /\ driver' = driver]_vars

\* C7: request_rider(driver) on a non-empty wait-list returns its first rider
\* and removes exactly that rider, keeping the order of the rest; on an empty
\* wait-list it returns None and leaves the wait-list empty.
C7_RequestRiderDequeuesFirst ==
    [][IsCall("request_rider")
       => /\ ret'.exc = "none"
          /\ IF waitlist = <<>>
             THEN ret'.val = <<>> /\ waitlist' = <<>>
             ELSE ret'.val = <<Head(waitlist)>> /\ waitlist' = Tail(waitlist)]_vars

\* C8: every RiderRequest applied at time t returns exactly one Cancellation
\* event, for its rider, with timestamp t + rider.patience.
C8_RiderRequestSchedulesCancellation ==
    ret.op = "RiderRequest"
    => /\ ret.exc = "none"
       /\ Cardinality({i \in 1..Len(ret.val) : ret.val[i].kind = "Cancellation"}) = 1
       /\ \A i \in 1..Len(ret.val) :
              ret.val[i].kind = "Cancellation"
              => /\ ret.val[i].rider = ret.rider
                 /\ ret.val[i].timestamp = ret.t + rider[ret.rider].patience

\* C9: a Cancellation applied to a rider that is not WAITING notifies nobody,
\* changes neither the rider nor the wait-list and returns no events; applied
\* to a WAITING rider it notifies (rider, cancel), removes the rider from the
\* wait-list, sets its status CANCELLED and returns no events.
C9_CancellationEffect ==
    [][\A r \in Riders :
          (IsCall("Cancellation") /\ ret'.rider = r)
          => /\ ret'.exc = "none"
             /\ ret'.val = <<>>
             /\ IF rider[r]._status # WAITING
                THEN /\ activities' = activities
                     /\ rider' = rider
                     /\ waitlist' = waitlist
                ELSE /\ activities' = notify(activities, ret'.t, RIDER, CANCEL,
                                             r, rider[r].origin)
                     /\ r \notin Range(waitlist')
                     /\ rider'[r]._status = CANCELLED]_vars

\* C10: a Pickup applied at time t to a WAITING rider, by a driver that was
\* sent to the rider's origin, sets the rider SATISFIED, makes the rider the
\* driver's passenger and the rider's destination the driver's destination,
\* leaves the rider off the wait-list and returns exactly one event: a
\* Dropoff of the rider by the driver at t + the travel time from the
\* rider's origin to the rider's destination.
C10_PickupOfWaitingRider ==
    [][\A r \in Riders, d \in Drivers :
          (/\ IsCall("Pickup")
           /\ ret'.rider = r
           /\ ret'.driver = d
           /\ driver[d].destination = rider[r].origin
           /\ rider[r]._status = WAITING)
          => /\ ret'.exc = "none"
             /\ rider'[r]._status = SATISFIED
             /\ driver'[d]._passenger = r
             /\ driver'[d].destination = rider[r].destination
             /\ r \notin Range(waitlist')
             /\ ret'.val =
                  <<Ev("Dropoff",
                       ret'.t + PyRound(manhattan_distance(rider[r].origin,
                                                           rider[r].destination).val,
                                        driver[d].speed),
                       r, d)>>]_vars

\* C11: a Pickup applied at time t to a rider whose status is CANCELLED sends
\* no notification, does not start a ride (the driver only arrives where it
\* was driving to: passenger, destination and idle flag are as before) and
\* returns exactly one event, a DriverRequest of the same driver at time t.
C11_PickupOfCancelledRider ==
    [][\A r \in Riders, d \in Drivers :
          (/\ IsCall("Pickup")
           /\ ret'.rider = r
           /\ ret'.driver = d
           /\ rider[r]._status = CANCELLED)
          => /\ ret'.exc = "none"
             /\ activities' = activities
             /\ driver' = [driver EXCEPT ![d].location = driver[d].destination]
             /\ rider' = rider
             /\ ret'.val = <<Ev("DriverRequest", ret'.t, NoId, d)>>]_vars

\* A driver sent to a CANCELLED rider's origin has arrived there and its
\* Pickup has returned.
C11_Witness ==
    /\ ret.op = "Pickup"
    /\ ret.exc = "none"
    /\ rider[ret.rider]._status = CANCELLED
    /\ driver[ret.driver].location = rider[ret.rider].origin
    /\ ret.val # <<>>

\* Driver d is on a ride with rider r: what start_ride(r) leaves.
OnRide(d, r) ==
    /\ driver[d]._passenger = r
    /\ driver[d].destination = rider[r].destination
    /\ ~driver[d].is_idle

\* C13: a Dropoff applied at time t notifies (driver, dropoff) and then
\* (rider, dropoff) at the rider's destination, puts the driver where it was
\* driving to (the rider's destination when the driver is on a ride with the
\* rider), clears the driver's passenger and destination, sets the driver
\* idle and returns exactly one event, a DriverRequest of the driver at t.
C13_DropoffEffect ==
    [][\A r \in Riders, d \in Drivers :
          (IsCall("Dropoff") /\ ret'.rider = r /\ ret'.driver = d)
          => /\ ret'.exc = "none"
             /\ activities' =
                  notify(notify(activities, ret'.t, DRIVER, DROPOFF, d,
                                rider[r].destination),
                         ret'.t, RIDER, DROPOFF, r, rider[r].destination)
             /\ driver' = [driver EXCEPT ![d] =
                             [location |-> driver[d].destination,
                              speed |-> driver[d].speed,
                              is_idle |-> TRUE,
                              destination |-> None,
                              _passenger |-> NoId]]
             /\ OnRide(d, r) => driver'[d].location = rider[r].destination
             /\ rider' = rider
             /\ ret'.val = <<Ev("DriverRequest", ret'.t, NoId, d)>>]_vars

\* A rider was picked up (the ride was started) and then dropped off: the
\* driver stands idle at the rider's destination, away from where it began.
C13_Witness ==
    /\ ret.op = "Dropoff"
    /\ ret.exc = "none"
    /\ ret.rider \in DOMAIN activities[RIDER]
    /\ Len(activities[RIDER][ret.rider]) = 2
    /\ activities[RIDER][ret.rider][1].description = PICKUP
    /\ driver[ret.driver].location = rider[ret.rider].destination
    /\ driver[ret.driver].location # rider[ret.rider].origin
    /\ driver[ret.driver].is_idle

\* C15: cancel_ride(rider) takes the rider off the wait-list if it is there,
\* keeping the other riders and their order, leaves the wait-list as it is if
\* the rider is not there, and sets the rider's status CANCELLED if and only
\* if it was WAITING; it returns None and touches no other rider.
C15_CancelRideEffect ==
    [][\A r \in Riders :
          (IsCall("cancel_ride") /\ ret'.rider = r)
          => /\ ret'.exc = "none"
             /\ waitlist' = SelectSeq(waitlist, LAMBDA x : x # r)
             /\ rider' = [rider EXCEPT ![r]._status =
                             IF @ = WAITING THEN CANCELLED ELSE @]]_vars

\* C16: request_rider(driver) leaves the driver in the fleet exactly once,
\* whether or not it was there before and whatever its location and idle
\* flag, and removes no driver from the fleet.
C16_RequestRiderRegistersOnce ==
    [][\A d \in Drivers :
          (IsCall("request_rider") /\ ret'.driver = d)
          => /\ Cardinality({i \in 1..Len(fleet') : fleet'[i] = d}) = 1
             /\ Range(fleet) \subseteq Range(fleet')
             /\ Len(fleet') = Cardinality(Range(fleet'))]_vars

\* C17: request_driver, request_rider and cancel_ride never raise; with no
\* idle driver, or no waiting rider, the request returns None.
C17_DispatcherNeverRaises ==
    [][/\ (IsCall("request_driver") \/ IsCall("request_rider") \/ IsCall("cancel_ride"))
          => ret'.exc = "none"
       /\ (IsCall("request_driver") /\ \A i \in 1..Len(fleet) : ~driver[fleet[i]].is_idle)
          => ret'.val = <<>>
       /\ (IsCall("request_rider") /\ waitlist = <<>>)
          => ret'.val = <<>>]_vars

\* The step is the container operation op.
IsOp(op) == ret'.op = op

\* C18: the PriorityQueue's item list is sorted after every add and every
\* remove (no item is less than an item before it), and when adds are
\* followed by removes the removed items come out in non-decreasing priority
\* order: no removed item is less than one removed before it.
C18_PriorityQueueOrder ==
    /\ \A i, j \in 1..Len(events) : i < j => ~Event_lt(events[j], events[i])
    /\ phase \in {"load", "run"}
       => \A i, j \in 1..Len(applied) : i < j => ~Event_lt(applied[j], applied[i])

\* Three items were added and then removed, and the one added last came out
\* first, being less than the other two.
C18_Witness ==
    /\ phase = "run"
    /\ Len(applied) = 3
    /\ events = <<>>
    /\ applied[1].n = 3
    /\ Event_lt(applied[1], applied[2])
    /\ Event_lt(applied[1], applied[3])

\* Items a and b have equal priority.
Tie(a, b) == ~Event_lt(a, b) /\ ~Event_lt(b, a)

\* C19: in every interleaving of adds and removes, items of equal priority
\* are removed in the order of their addition: among the removed items, and
\* between a removed item and one still queued, the item added earlier comes
\* first, and the queue holds equal items in the order of their addition.
C19_PriorityQueueFifoTies ==
    /\ \A i, j \in 1..Len(applied) :
           (i < j /\ Tie(applied[i], applied[j])) => applied[i].n < applied[j].n
    /\ \A i \in 1..Len(applied), j \in 1..Len(events) :
           Tie(applied[i], events[j]) => applied[i].n < events[j].n
    /\ \A i, j \in 1..Len(events) :
           (i < j /\ Tie(events[i], events[j])) => events[i].n < events[j].n

\* Two equal items were added, the first was removed, a more urgent item was
\* added and removed, and then the second of the equal items came out.
C19_Witness ==
    /\ phase = "mixed"
    /\ Len(applied) = 3
    /\ Tie(applied[1], applied[3])
    /\ applied[1].n = 1
    /\ applied[3].n = 2
    /\ applied[2].n = 3
    /\ Event_lt(applied[2], applied[1])

\* C20: a remove from an empty PriorityQueue, and a remove() from an empty
\* Queue, fails with EmptyQueueError, returns no item and leaves the queue
\* empty.
C20_RemoveFromEmpty ==
    [][/\ (IsOp("PriorityQueue.remove") /\ events = <<>>)
          => /\ ret'.exc = "EmptyQueueError"
             /\ ret'.val = <<>>
             /\ events' = <<>>
       /\ (IsOp("Queue.remove") /\ ret'.rider = NoId /\ waitlist = <<>>)
          => /\ ret'.exc = "EmptyQueueError"
             /\ ret'.val = <<>>
             /\ waitlist' = <<>>]_vars

\* C21: for every driver, the destination is set exactly when the driver is
\* driving to a pickup or carrying a passenger, and the driver is not idle
\* exactly when its destination is set; so a driver with a passenger has a
\* destination, and a driver that has a destination is not idle.
C21_DestinationIffBusy ==
    \A d \in Drivers :
        /\ (driver[d].destination # None) <=> ~driver[d].is_idle
        /\ driver[d]._passenger # NoId => driver[d].destination # None

\* C22: start_drive on a driver that is not idle and has a destination
\* fails with InvalidStateTransition and leaves the destination as it was.
C22_StartDriveRefusesBusyDriver ==
    [][\A d \in Drivers :
          (/\ IsCall("start_drive")
           /\ ret'.driver = d
           /\ ~driver[d].is_idle
           /\ driver[d].destination # None)
          => /\ ret'.exc = "InvalidStateTransition"
             /\ driver'[d].destination = driver[d].destination]_vars

\* C23: end_drive on a driver with a destination puts the driver at that
\* destination, clears the destination and changes nothing else of the
\* driver (idle flag, speed, passenger) nor any other driver.
C23_EndDriveEffect ==
    [][\A d \in Drivers :
          (IsCall("end_drive") /\ ret'.driver = d /\ driver[d].destination # None)
          => /\ ret'.exc = "none"
             /\ driver' = [driver EXCEPT ![d] =
                             [location |-> driver[d].destination,
                              speed |-> driver[d].speed,
                              is_idle |-> driver[d].is_idle,
                              destination |-> None,
                              _passenger |-> driver[d]._passenger]]]_vars

EventKinds == {"RiderRequest", "DriverRequest", "Cancellation", "Pickup", "Dropoff"}

\* C24: every event returned by the do() of an event with timestamp t has a
\* timestamp of at least t, whatever the kind of the event applied.
C24_FollowUpsNotEarlier ==
    (ret.op \in EventKinds /\ ret.exc = "none")
    => \A i \in 1..Len(ret.val) : ret.val[i].timestamp >= ret.t

\* An event applied at a time after 0 has returned a follow-up event.
C24_Witness ==
    /\ ret.op \in EventKinds
    /\ ret.exc = "none"
    /\ ret.t = MaxTime
    /\ ret.val # <<>>
    /\ ret.val[1].kind \in EventKinds

\* The events of the run, applied or still queued.
RunEvents == Range(applied) \cup Range(events)

\* C25: a rider whose request was applied at t0 and who saw no driver
\* request up to t0 + patience is CANCELLED when the run is over, with its
\* cancellation notified at exactly t0 + patience, and no Pickup of that
\* rider was applied, whatever drivers asked for riders later.
C25_PatienceExpires ==
    \A r \in Riders : \A i \in 1..Len(applied) :
        (/\ RunEnded
         /\ applied[i].kind = "RiderRequest"
         /\ applied[i].rider = r
         /\ \A e \in RunEvents :
                e.kind = "DriverRequest"
                => e.timestamp > applied[i].timestamp + rider[r].patience)
        => /\ rider[r]._status = CANCELLED
           /\ r \in DOMAIN activities[RIDER]
           /\ \E k \in 1..Len(activities[RIDER][r]) :
                  /\ activities[RIDER][r][k].description = CANCEL
                  /\ activities[RIDER][r][k].time
                       = applied[i].timestamp + rider[r].patience
           /\ \A j \in 1..Len(applied) :
                  ~(applied[j].kind = "Pickup" /\ applied[j].rider = r)

\* Event e was inserted into the engine's queue as the n-th event.
Inserted(e, n) == [e EXCEPT !.n = n] \in RunEvents

\* C26: with the seeds DriverRequest(0, d1) and then RiderRequest(0, r1),
\* d1 of speed 1 standing at r1's origin, the run applies the DriverRequest
\* first and, when it is over, has applied a Pickup of r1 by d1 at time 0 and
\* a Dropoff of r1 by d1 at the distance from r1's origin to its destination,
\* and r1 is SATISFIED.
C26_DriverThenRiderScenario ==
    (/\ RunEnded
     /\ Inserted(Ev("DriverRequest", 0, NoId, "d1"), 1)
     /\ Inserted(Ev("RiderRequest", 0, "r1", NoId), 2)
     /\ \A e \in RunEvents :
            e.kind \in {"DriverRequest", "RiderRequest"} => e.n # 3
     /\ driver["d1"].speed = 1)
    => /\ applied[1] = [Ev("DriverRequest", 0, NoId, "d1") EXCEPT !.n = 1]
       /\ \E i \in 1..Len(applied) :
              /\ applied[i].kind = "Pickup"
              /\ applied[i].timestamp = 0
              /\ applied[i].rider = "r1"
              /\ applied[i].driver = "d1"
       /\ \E i \in 1..Len(applied) :
              /\ applied[i].kind = "Dropoff"
              /\ applied[i].timestamp
                   = manhattan_distance(rider["r1"].origin,
                                        rider["r1"].destination).val
              /\ applied[i].rider = "r1"
              /\ applied[i].driver = "d1"
       /\ rider["r1"]._status = SATISFIED

Gap(x, y) == IF x >= y THEN x - y ELSE y - x

\* C28: the travel time of a driver of positive speed to any location is a
\* non-negative integer, is distance / speed rounded to the nearest integer
\* with halves going to the even one, and is not less than the driver's
\* travel time to any location that is not farther.
C28_TravelTime ==
    ret.op = "get_travel_time"
    => LET v == ret.val[1]
           speed == driver[ret.driver].speed
           dist == Gap(ret.origin[1], ret.destination[1])
                   + Gap(ret.origin[2], ret.destination[2])
       IN /\ ret.exc = "none"
          /\ v \in Nat
          /\ 2 * Gap(v * speed, dist) <= speed
          /\ 2 * Gap(v * speed, dist) = speed => v % 2 = 0
          /\ \A l \in Locations :
                 Gap(ret.origin[1], l[1]) + Gap(ret.origin[2], l[2]) <= dist
                 => get_travel_time(driver[ret.driver], l).val <= v

\* A travel time that fell on a half and went to the even integer.
C28_Witness ==
    /\ ret.op = "get_travel_time"
    /\ ret.exc = "none"
    /\ ret.origin # ret.destination
    /\ 2 * Gap(ret.val[1] * driver[ret.driver].speed,
               Gap(ret.origin[1], ret.destination[1])
               + Gap(ret.origin[2], ret.destination[2]))
         = driver[ret.driver].speed

\* C29: manhattan_distance(a, b) is |a.row - b.row| + |a.column - b.column|,
\* is never negative, equals manhattan_distance(b, a), and is zero exactly
\* when a and b have the same row and the same column.
C29_ManhattanDistance ==
    ret.op = "manhattan_distance"
    => LET a == ret.origin
           b == ret.destination
           v == ret.val[1]
       IN /\ ret.exc = "none"
          /\ v = Gap(a[1], b[1]) + Gap(a[2], b[2])
          /\ v >= 0
          /\ v = manhattan_distance(b, a).val
          /\ v = 0 <=> (a[1] = b[1] /\ a[2] = b[2])

\* The distance of two locations that differ in both coordinates, one
\* greater in its row and the other in its column.
C29_Witness ==
    /\ ret.op = "manhattan_distance"
    /\ ret.exc = "none"
    /\ ret.origin[1] > ret.destination[1]
    /\ ret.origin[2] < ret.destination[2]
    /\ ret.val[1] = 2 * MaxCoord

\* C30: every run terminates with its queue drained: from some point on the
\* event queue is empty for good.
C30_RunDrainsQueue == <>[](events = <<>>)

\* The descriptions of the notifications recorded for rider r, in order.
RiderLog(r) ==
    IF r \in DOMAIN activities[RIDER] THEN activities[RIDER][r] ELSE <<>>

Descriptions(log) == [i \in 1..Len(log) |-> log[i].description]

=============================================================================
